---- MODULE Spec2Model ----
(***************************************************************************)
(* Model of cppobjectpool::ObjectPool<T, Args...> (src/cppobjectpool.hpp). *)
(*                                                                         *)
(* An instance is identified by its address (an element of Ids).  Every    *)
(* std::shared_ptr<T> that names an instance is a reference; the custom    *)
(* deleter installed by createObject runs in the step that removes the     *)
(* last reference.  Caller threads run acquire and release, the owner      *)
(* thread runs clear and the destructor, one background thread runs        *)
(* cleanupTask.  A critical section is one step; the loops that pop        *)
(* m_delayedQueue take one step per pop while m_delayMutex is held.        *)
(***************************************************************************)
EXTENDS Integers, Sequences, FiniteSets, TLC

\* ---------------------------------------------------------------- bounds
NumCallers == 2
MaxInit == 1
MaxCap == 2
MaxDelay == 1
MaxQueue == 1
MaxTime == 1

\* ------------------------------------------------------------- universes
Callers == 1..NumCallers
Owner == "owner"
Null == 0
NumIds == IF MaxInit > MaxCap THEN MaxInit ELSE MaxCap
Ids == 1..NumIds
NoThread == "none"

VARIABLES
    initialSize,      \* constructor argument
    m_maxSize,
    m_preProcess,     \* TRUE iff the std::function is non-empty
    m_postProcess,
    m_finalProcess,
    m_pool,           \* std::vector<std::shared_ptr<T>>
    m_delayedQueue,   \* std::priority_queue<DelayedObject>, as an unordered sequence
    m_delayMutex,     \* holder of m_delayMutex, or NoThread
    m_allocedCount,
    m_running,
    alive,            \* instances constructed and not yet deleted
    held,             \* held[c]: instances caller c keeps a shared_ptr to
    loan,             \* loan[c]: instances c got from acquire and has not passed to release
    pc,               \* position of the owner thread, which calls clear() and destroys the pool
    sweepPc,          \* position of the cleanup thread
    expiredObjects,   \* the local vector of processExpiredObjects
    sweepIdx,         \* position of the range-for in processExpiredObjects
    now,              \* std::chrono::steady_clock
    hookCalls,        \* the hook invocations <<hook, instance>> made by the latest step
    lastAcquire,      \* <<caller, value returned>> if the latest step is an acquire() call, else <<>>
    pristine,         \* no release, clear, drop or teardown has been started yet
    danglingAccess,   \* the deleter has used `this` after the pool was destroyed
    crashed,          \* the process has died in such a use
    m_mutex,          \* holder of m_mutex, or NoThread
    callPc,           \* callPc[c]: the statement caller c is at inside a pool call
    callObj,          \* callObj[c]: the local / parameter `obj` of that call
    sinceClear,       \* "none", or the progress of the latest clear() with no release since
    pendingAtClear    \* the instances pending return when that clear() was called

vars == <<initialSize, m_maxSize, m_preProcess, m_postProcess, m_finalProcess,
          m_pool, m_delayedQueue, m_delayMutex, m_allocedCount, m_running,
          alive, held, loan, pc, sweepPc, expiredObjects,
          sweepIdx, now, hookCalls, lastAcquire,
          pristine, danglingAccess, crashed,
          m_mutex, callPc, callObj, sinceClear, pendingAtClear>>

\* --------------------------------------------------------------- helpers
Occurrences(s, i) == Cardinality({k \in 1..Len(s) : s[k] = i})

QueueObjs == [k \in 1..Len(m_delayedQueue) |-> m_delayedQueue[k].obj]

Range(q) == {q[k] : k \in 1..Len(q)}

RemoveAt(s, k) == [j \in 1..(Len(s) - 1) |-> IF j < k THEN s[j] ELSE s[j + 1]]

\* use_count() of the shared_ptr control block of instance i
RefCountPoolOnly(i) ==
    Occurrences(m_pool, i) + Occurrences(QueueObjs, i)
    + Occurrences(expiredObjects, i)
RefCount(i) ==
    Occurrences(m_pool, i) + Occurrences(QueueObjs, i)
    + Cardinality({c \in Callers : i \in held[c]})
    + Occurrences(expiredObjects, i)

OnLoan == UNION {loan[c] : c \in Callers}

PoolExists == pc # "gone"

\* Callers use the pool until its owner starts to destroy it (m_running is
\* then false); they may call while the owner is inside clear().
CallerMayCall == IF m_running THEN {"idle", "clr_drain", "clr_pool"} ELSE {}

\* DelayedObject::operator< makes top() an entry of least expiry
IsTop(k) ==
    /\ k \in 1..Len(m_delayedQueue)
    /\ \A j \in 1..Len(m_delayedQueue) :
          m_delayedQueue[k].expiry <= m_delayedQueue[j].expiry

\* createObject: `new T` yields an address that no live instance has
NewId == CHOOSE i \in Ids \ alive : \A j \in Ids \ alive : i <= j

\* m_preProcess(obj) / m_postProcess(obj) behind their `if (m_...)` guards
PreProcessSkipped(x) == {}
PreProcess(x) == IF m_preProcess THEN {<<"pre", x>>} ELSE {}
PostProcessSkipped(x) == {}
PostProcess(x) == IF m_postProcess THEN {<<"post", x>>} ELSE {}

\* The instances whose last reference the current step removes
DeadOffLoan == {i \in alive : i \notin OnLoan' /\ Occurrences(m_pool', i) = 0}
Dead == {i \in alive : RefCount(i)' = 0}

\* The deleter lambda of createObject (lines 137-145), run for every instance
\* of Dead while the pool object exists: the final-teardown hook,
\* --m_allocedCount, delete ptr.
FinalProcess == IF m_finalProcess THEN {<<"final", i>> : i \in Dead} ELSE {}
DeleterKeepsCount ==
    /\ alive' = alive \ Dead
    /\ m_allocedCount' = m_allocedCount
Deleter ==
    /\ alive' = alive \ Dead
    /\ m_allocedCount' = m_allocedCount - Cardinality(Dead)

\* ------------------------------------------------------------------ Init
\* ObjectPool::ObjectPool: the first overload is given the three hooks, the
\* second overload leaves the three of them empty.
Init ==
    /\ initialSize \in 0..MaxInit
    /\ m_maxSize \in 0..MaxCap
    /\ m_preProcess \in BOOLEAN
    /\ m_postProcess = m_preProcess
    /\ m_finalProcess = m_preProcess
    /\ m_pool = [k \in 1..initialSize |-> k]
    /\ m_delayedQueue = <<>>
    /\ m_delayMutex = NoThread
    /\ m_allocedCount = initialSize
    /\ m_running = TRUE
    /\ alive = 1..initialSize
    /\ held = [c \in Callers |-> {}]
    /\ loan = [c \in Callers |-> {}]
    /\ pc = "idle"
    /\ sweepPc = "wait"
    /\ expiredObjects = <<>>
    /\ sweepIdx = 1
    /\ now = 0
    /\ hookCalls = {}
    /\ lastAcquire = <<>>
    /\ pristine = TRUE
    /\ danglingAccess = FALSE
    /\ crashed = FALSE
    /\ m_mutex = NoThread
    /\ callPc = [c \in Callers |-> "idle"]
    /\ callObj = [c \in Callers |-> [expiry |-> 0, obj |-> Null]]
    /\ sinceClear = "none"
    /\ pendingAtClear = {}

\* The variables that only change in the statement-level specification
\* (StmtSpec below); in Spec a critical section is one step, so m_mutex is
\* free and no caller is inside a call between two steps.
stmtVars == <<m_mutex, callPc, callObj, sinceClear, pendingAtClear>>
ctorVars == <<initialSize, m_maxSize, m_preProcess, m_postProcess, m_finalProcess>>
sweepVars == <<sweepPc, expiredObjects, sweepIdx>>
uafVars == <<danglingAccess, crashed>>

\* --------------------------------------------------------------- acquire
\* acquire(): `m_allocedCount < m_maxSize` (line 236)
HasHeadroomOffByOne == m_allocedCount <= m_maxSize
HasHeadroom == m_allocedCount < m_maxSize

\* acquire() (lines 225-248): the block under m_mutex, then the pre-acquire
\* hook on the instance it selected, then the return to the caller.
Acquire(c) ==
    /\ pc \in CallerMayCall
    /\ IF m_pool # <<>>
       THEN LET x == m_pool[Len(m_pool)] IN
            /\ m_pool' = SubSeq(m_pool, 1, Len(m_pool) - 1)
            /\ hookCalls' = PreProcess(x)
            /\ lastAcquire' = <<c, x>>
            /\ held' = [held EXCEPT ![c] = @ \cup {x}]
            /\ loan' = [loan EXCEPT ![c] = @ \cup {x}]
            /\ UNCHANGED <<m_allocedCount, alive>>
       ELSE IF HasHeadroom
       THEN LET x == NewId IN
            /\ Ids \ alive # {}
            /\ alive' = alive \cup {x}
            /\ m_allocedCount' = m_allocedCount + 1
            /\ hookCalls' = PreProcess(x)
            /\ lastAcquire' = <<c, x>>
            /\ held' = [held EXCEPT ![c] = @ \cup {x}]
            /\ loan' = [loan EXCEPT ![c] = @ \cup {x}]
            /\ UNCHANGED m_pool
       ELSE /\ hookCalls' = {}
            /\ lastAcquire' = <<c, Null>>
            /\ UNCHANGED <<m_pool, m_allocedCount, alive, held, loan>>
    /\ UNCHANGED <<ctorVars, stmtVars, m_delayedQueue, m_delayMutex, m_running, pc,
                   sweepVars, now, pristine, uafVars>>

\* --------------------------------------------------------------- release
\* release(obj, delay) with delay == 0 (lines 254-270): the post-release
\* hook, then the block under m_mutex.  The caller passes a copy of a
\* shared_ptr it holds, so the parameter is never the last reference.
ReleaseNow(c, x) ==
    /\ lastAcquire' = <<>>
    /\ pc \in CallerMayCall
    /\ x \in held[c]
    /\ loan' = [loan EXCEPT ![c] = @ \ {x}]
    /\ hookCalls' = PostProcess(x)
    /\ m_pool' = IF Len(m_pool) < m_maxSize THEN Append(m_pool, x) ELSE m_pool
    /\ pristine' = FALSE
    /\ UNCHANGED <<ctorVars, stmtVars, m_delayedQueue, m_delayMutex, m_allocedCount,
                   m_running, alive, held, pc, sweepVars, now, uafVars>>

\* release(obj, delay) with delay > 0 (lines 271-278)
\* (the queue is kept within `cap` entries)
ReleaseDelayUpTo(c, x, delay, cap) ==
    /\ lastAcquire' = <<>>
    /\ pc \in CallerMayCall
    /\ x \in held[c]
    /\ delay > 0
    /\ m_delayMutex = NoThread
    /\ Len(m_delayedQueue) < cap
    /\ m_delayedQueue' = Append(m_delayedQueue, [expiry |-> now + delay, obj |-> x])
    /\ loan' = [loan EXCEPT ![c] = @ \ {x}]
    /\ hookCalls' = {}
    /\ pristine' = FALSE
    /\ UNCHANGED <<ctorVars, stmtVars, m_pool, m_delayMutex, m_allocedCount, m_running, alive,
                   held, pc, sweepVars, now, uafVars>>

ReleaseDelay(c, x, delay) == ReleaseDelayUpTo(c, x, delay, MaxQueue)

\* The caller destroys its shared_ptr to x while the pool object exists.
Drop(c, x) ==
    /\ lastAcquire' = <<>>
    /\ PoolExists
    /\ x \in held[c]
    /\ held' = [held EXCEPT ![c] = @ \ {x}]
    /\ loan' = [loan EXCEPT ![c] = @ \ {x}]
    /\ pristine' = FALSE
    /\ UNCHANGED <<ctorVars, stmtVars, m_pool, m_delayedQueue, m_delayMutex, m_running, pc,
                   sweepVars, now, uafVars>>
    /\ hookCalls' = FinalProcess
    /\ Deleter

\* ----------------------------------------------------------------- clear
\* clear(): lock_guard on m_delayMutex (line 297).  The owner thread calls
\* it, directly or from the destructor after the join (line 216).
ClearLock ==
    /\ lastAcquire' = <<>>
    /\ pc \in {"idle", "dtor_clear"}
    /\ m_delayMutex = NoThread
    /\ m_delayMutex' = Owner
    /\ pc' = "clr_drain"
    /\ hookCalls' = {}
    /\ pristine' = FALSE
    /\ UNCHANGED <<ctorVars, stmtVars, m_pool, m_delayedQueue, m_allocedCount, m_running,
                   alive, held, loan, sweepVars, now, uafVars>>

\* clear(): one iteration of the while loop (lines 298-306); the local obj
\* dies at the end of the iteration
ClearDrain(k) ==
    /\ lastAcquire' = <<>>
    /\ pc = "clr_drain"
    /\ IsTop(k)
    /\ m_delayedQueue' = RemoveAt(m_delayedQueue, k)
    /\ UNCHANGED <<ctorVars, stmtVars, m_pool, m_delayMutex, m_running, held, loan, pc,
                   sweepVars, now, pristine, uafVars>>
    /\ hookCalls' = PostProcess(m_delayedQueue[k].obj) \cup FinalProcess
    /\ Deleter

\* clear(): an iteration in which m_postProcess(obj) throws a std::exception
\* (line 304).  The entry is already popped; unwinding destroys obj and the
\* lock_guard, the handler at line 314 logs, and clear() returns without
\* reaching the rest of the queue or m_pool.clear().
ClearDrainThrows(k) ==
    /\ lastAcquire' = <<>>
    /\ pc = "clr_drain"
    /\ m_postProcess
    /\ IsTop(k)
    /\ m_delayedQueue' = RemoveAt(m_delayedQueue, k)
    /\ m_delayMutex' = NoThread
    /\ pc' = IF m_running THEN "idle" ELSE "dtor_end"
    /\ UNCHANGED <<ctorVars, stmtVars, m_pool, m_running, held, loan,
                   sweepVars, now, pristine, uafVars>>
    /\ hookCalls' = PostProcess(m_delayedQueue[k].obj) \cup FinalProcess
    /\ Deleter

\* clear(): the loop ends and the lock_guard on m_delayMutex is released
ClearUnlock ==
    /\ lastAcquire' = <<>>
    /\ pc = "clr_drain"
    /\ m_delayedQueue = <<>>
    /\ m_delayMutex' = NoThread
    /\ pc' = "clr_pool"
    /\ hookCalls' = {}
    /\ UNCHANGED <<ctorVars, stmtVars, m_pool, m_delayedQueue, m_allocedCount, m_running,
                   alive, held, loan, sweepVars, now, pristine, uafVars>>

\* clear(): m_pool.clear() under m_mutex (lines 309-312) and the return
ClearPool ==
    /\ lastAcquire' = <<>>
    /\ pc = "clr_pool"
    /\ m_pool' = <<>>
    /\ pc' = IF m_running THEN "idle" ELSE "dtor_end"
    /\ UNCHANGED <<ctorVars, stmtVars, m_delayedQueue, m_delayMutex, m_running, held, loan,
                   sweepVars, now, pristine, uafVars>>
    /\ hookCalls' = FinalProcess
    /\ Deleter

\* ------------------------------------------------------------ cleanupTask
\* The cleanup thread is at "wait" from the loop condition of cleanupTask
\* (line 324) to the end of its sleep (line 326), at "each" inside the for
\* loop of processExpiredObjects, and at "done" after it has left the loop.

\* cleanupTask(): the loop condition reads m_running == false (line 324)
SweepStop ==
    /\ lastAcquire' = <<>>
    /\ sweepPc = "wait"
    /\ ~m_running
    /\ sweepPc' = "done"
    /\ hookCalls' = {}
    /\ UNCHANGED <<ctorVars, stmtVars, m_pool, m_delayedQueue, m_delayMutex, m_allocedCount,
                   m_running, alive, held, loan, pc, expiredObjects, sweepIdx, now,
                   pristine, uafVars>>

\* The indexes of the entries with expiry <= now, and the orders in which
\* the while loop (lines 340-344) can pop them: ascending expiry.
ExpiredIdx == {k \in 1..Len(m_delayedQueue) : m_delayedQueue[k].expiry <= now}
PopOrdersAnyOrder ==
    {f \in [1..Cardinality(ExpiredIdx) -> ExpiredIdx] :
        \A i, j \in DOMAIN f : i # j => f[i] # f[j]}
PopOrders ==
    {f \in [1..Cardinality(ExpiredIdx) -> ExpiredIdx] :
        /\ \A i, j \in DOMAIN f : i # j => f[i] # f[j]
        /\ \A i, j \in DOMAIN f :
              i < j => m_delayedQueue[f[i]].expiry <= m_delayedQueue[f[j]].expiry}
NotExpired(e) == e.expiry > now

\* The loop condition the thread evaluates when processExpiredObjects returns
AfterTick == IF m_running THEN "wait" ELSE "done"

\* processExpiredObjects(): the block under m_delayMutex (lines 336-346).
\* The loop condition was read as true before the sleep.  With nothing
\* expired the for loop is empty and the function returns.
SweepCollect(f) ==
    /\ lastAcquire' = <<>>
    /\ sweepPc = "wait"
    /\ m_delayMutex = NoThread
    /\ f \in PopOrders
    /\ expiredObjects' = [j \in DOMAIN f |-> m_delayedQueue[f[j]].obj]
    /\ m_delayedQueue' = SelectSeq(m_delayedQueue, NotExpired)
    /\ sweepIdx' = 1
    /\ sweepPc' = IF ExpiredIdx # {} THEN "each" ELSE AfterTick
    /\ hookCalls' = {}
    /\ UNCHANGED <<ctorVars, stmtVars, m_pool, m_delayMutex, m_allocedCount, m_running, alive,
                   held, loan, pc, now, pristine, uafVars>>

\* processExpiredObjects(): one iteration of the for loop (lines 348-361):
\* the post-release hook, then the block under m_mutex.  A moved-from
\* element of the vector is empty; an element that is not moved keeps its
\* reference until the vector is destroyed.
SweepEach ==
    /\ lastAcquire' = <<>>
    /\ sweepPc = "each"
    /\ sweepIdx <= Len(expiredObjects)
    /\ hookCalls' = PostProcess(expiredObjects[sweepIdx])
    /\ IF Len(m_pool) < m_maxSize
       THEN /\ m_pool' = Append(m_pool, expiredObjects[sweepIdx])
            /\ expiredObjects' = [expiredObjects EXCEPT ![sweepIdx] = Null]
       ELSE UNCHANGED <<m_pool, expiredObjects>>
    /\ sweepIdx' = sweepIdx + 1
    /\ UNCHANGED <<ctorVars, stmtVars, m_delayedQueue, m_delayMutex, m_allocedCount, m_running,
                   alive, held, loan, pc, sweepPc, now, pristine, uafVars>>

\* processExpiredObjects(): the for loop ends and expiredObjects is destroyed
SweepReturn ==
    /\ lastAcquire' = <<>>
    /\ sweepPc = "each"
    /\ sweepIdx > Len(expiredObjects)
    /\ expiredObjects' = <<>>
    /\ sweepIdx' = 1
    /\ sweepPc' = AfterTick
    /\ UNCHANGED <<ctorVars, stmtVars, m_pool, m_delayedQueue, m_delayMutex, m_running, held,
                   loan, pc, now, pristine, uafVars>>
    /\ hookCalls' = FinalProcess
    /\ Deleter

\* ------------------------------------------------------------ ~ObjectPool
\* ~ObjectPool(): m_running = false (line 209)
DtorStop ==
    /\ lastAcquire' = <<>>
    /\ pc = "idle"
    /\ m_running' = FALSE
    /\ pc' = "dtor_join"
    /\ hookCalls' = {}
    /\ pristine' = FALSE
    /\ UNCHANGED <<ctorVars, stmtVars, m_pool, m_delayedQueue, m_delayMutex, m_allocedCount,
                   alive, held, loan, sweepVars, now, uafVars>>

\* ~ObjectPool(): m_cleanup_thread.join() returns (lines 210-213)
DtorJoin ==
    /\ lastAcquire' = <<>>
    /\ pc = "dtor_join"
    /\ sweepPc = "done"
    /\ pc' = "dtor_clear"
    /\ hookCalls' = {}
    /\ UNCHANGED <<ctorVars, stmtVars, m_pool, m_delayedQueue, m_delayMutex, m_allocedCount,
                   m_running, alive, held, loan, sweepVars, now, pristine, uafVars>>

Outcomes == {"called", "skipped", "crash"}

\* ~ObjectPool(): the body has ended and the members are destroyed in
\* reverse order of declaration (lines 103-131): m_allocedCount and the three
\* hooks before m_pool and m_delayedQueue.  If clear() has left an entry
\* whose shared_ptr is the last reference, its deleter (lines 137-145) runs
\* on the destroyed m_finalProcess and m_allocedCount: the hook is found set
\* and is called, or is found empty, or the process dies.
DtorEnd(outcome) ==
    /\ lastAcquire' = <<>>
    /\ pc = "dtor_end"
    /\ pc' = "gone"
    /\ m_pool' = <<>>
    /\ m_delayedQueue' = <<>>
    /\ UNCHANGED <<ctorVars, stmtVars, m_delayMutex, m_allocedCount,
                   m_running, held, loan, sweepVars, now, pristine>>
    /\ IF Dead # {}
       THEN /\ danglingAccess' = TRUE
            /\ \/ /\ outcome = "called"
                  /\ hookCalls' = {<<"final", i>> : i \in Dead}
                  /\ alive' = alive \ Dead
                  /\ crashed' = FALSE
               \/ /\ outcome = "skipped"
                  /\ hookCalls' = {}
                  /\ alive' = alive \ Dead
                  /\ crashed' = FALSE
               \/ /\ outcome = "crash"
                  /\ hookCalls' = {}
                  /\ crashed' = TRUE
                  /\ alive' = alive
       ELSE /\ outcome = "skipped"
            /\ hookCalls' = {}
            /\ UNCHANGED <<alive, danglingAccess, crashed>>


\* A caller destroys its shared_ptr to x after the pool was destroyed.  If it
\* is the last reference the deleter (lines 137-145) runs with a dangling
\* `this`: it reads this->m_finalProcess and decrements this->m_allocedCount
\* in storage that is no longer the pool's.  The hook is found set and is
\* called, or is found empty, or the process dies.
DropAfterTeardown(c, x, outcome) ==
    /\ lastAcquire' = <<>>
    /\ pc = "gone"
    /\ ~crashed
    /\ x \in held[c]
    /\ held' = [held EXCEPT ![c] = @ \ {x}]
    /\ loan' = [loan EXCEPT ![c] = @ \ {x}]
    /\ UNCHANGED <<ctorVars, stmtVars, m_pool, m_delayedQueue, m_delayMutex, m_allocedCount,
                   m_running, pc, sweepVars, now, pristine>>
    /\ IF RefCount(x)' = 0
       THEN /\ danglingAccess' = TRUE
            /\ \/ /\ outcome = "called"
                  /\ hookCalls' = {<<"final", x>>}
                  /\ alive' = alive \ {x}
                  /\ crashed' = FALSE
               \/ /\ outcome = "skipped"
                  /\ hookCalls' = {}
                  /\ alive' = alive \ {x}
                  /\ crashed' = FALSE
               \/ /\ outcome = "crash"
                  /\ hookCalls' = {}
                  /\ crashed' = TRUE
                  /\ alive' = alive
       ELSE /\ outcome = "skipped"
            /\ hookCalls' = {}
            /\ UNCHANGED <<alive, danglingAccess, crashed>>

\* ------------------------------------------------------------------ clock
TickUpTo(cap) ==
    /\ lastAcquire' = <<>>
    /\ PoolExists
    /\ now < cap
    /\ now' = now + 1
    /\ hookCalls' = {}
    /\ UNCHANGED <<ctorVars, stmtVars, m_pool, m_delayedQueue, m_delayMutex, m_allocedCount,
                   m_running, alive, held, loan, pc, sweepVars, pristine, uafVars>>

Tick == TickUpTo(MaxTime)


Next ==
    \/ \E c \in Callers : Acquire(c)
    \/ \E c \in Callers, x \in Ids : ReleaseNow(c, x)
    \/ \E c \in Callers, x \in Ids, d \in 1..MaxDelay : ReleaseDelay(c, x, d)
    \/ \E c \in Callers, x \in Ids : Drop(c, x)
    \/ ClearLock
    \/ \E k \in 1..Len(m_delayedQueue) : ClearDrain(k)
    \/ \E k \in 1..Len(m_delayedQueue) : ClearDrainThrows(k)
    \/ ClearUnlock
    \/ ClearPool
    \/ SweepStop
    \/ \E f \in PopOrders : SweepCollect(f)
    \/ SweepEach
    \/ SweepReturn
    \/ DtorStop
    \/ DtorJoin
    \/ \E o \in Outcomes : DtorEnd(o)
    \/ \E c \in Callers, x \in Ids, o \in Outcomes : DropAfterTeardown(c, x, o)
    \/ Tick

Spec == Init /\ [][Next]_vars

TypeOK ==
    /\ m_allocedCount \in Nat
    /\ alive \subseteq Ids
    /\ \A c \in Callers : loan[c] \subseteq held[c] /\ held[c] \subseteq alive
    /\ PoolExists => m_allocedCount = Cardinality(alive)

\* ============================================ statement-level specification
\* StmtSpec follows the same functions statement by statement: taking a
\* mutex, the block under it and a running hook are separate steps, so that
\* which thread holds which mutex at a hook call, and what another thread
\* does between two statements of clear(), are states.  Callers keep the
\* handles they acquired (no deleter runs), the pool is not destroyed, and
\* hooks return normally.
LockCap == 1
Sweeper == "sweeper"
Tid(c) == ToString(c)
NoObj == [expiry |-> 0, obj |-> Null]
ReleaseLocs == {"rel_post", "rel_wait", "rel_cs", "reld_wait", "reld_cs"}
InDelayedRelease == {c \in Callers : callPc[c] \in {"reld_wait", "reld_cs"}}

StmtInit ==
    /\ Init
    /\ initialSize = 0
    /\ m_maxSize = LockCap

\* What no statement-level step changes
stmtFixed == <<ctorVars, m_running, pristine, uafVars, alive, m_allocedCount>>
callerFrame == <<pc, sweepVars, now>>

\* ---- acquire() (lines 225-248)
SAcquireCall(c) ==
    /\ pc # "gone" /\ callPc[c] = "idle"
    /\ callPc' = [callPc EXCEPT ![c] = "acq_wait"]
    /\ hookCalls' = {} /\ lastAcquire' = <<>>
    /\ UNCHANGED <<stmtFixed, callerFrame, m_pool, m_delayedQueue, m_delayMutex,
                   m_mutex, held, loan, callObj, sinceClear, pendingAtClear>>

\* std::lock_guard<std::mutex> lock(m_mutex) (line 230)
SAcquireLock(c) ==
    /\ callPc[c] = "acq_wait"
    /\ m_mutex = NoThread
    /\ m_mutex' = Tid(c)
    /\ callPc' = [callPc EXCEPT ![c] = "acq_cs"]
    /\ hookCalls' = {} /\ lastAcquire' = <<>>
    /\ UNCHANGED <<stmtFixed, callerFrame, m_pool, m_delayedQueue, m_delayMutex,
                   held, loan, callObj, sinceClear, pendingAtClear>>

\* lines 231-241, the end of the locked block, and the call of the
\* pre-acquire hook when obj is set (lines 243-246)
SAcquireTake(c) ==
    /\ callPc[c] = "acq_cs"
    /\ m_mutex' = NoThread
    /\ lastAcquire' = <<>>
    /\ IF m_pool # <<>>
       THEN LET x == m_pool[Len(m_pool)] IN
            /\ m_pool' = SubSeq(m_pool, 1, Len(m_pool) - 1)
            /\ callObj' = [callObj EXCEPT ![c] = [expiry |-> 0, obj |-> x]]
            /\ hookCalls' = PreProcess(x)
            /\ callPc' = [callPc EXCEPT ![c] = IF m_preProcess THEN "acq_pre" ELSE "acq_ret"]
            /\ UNCHANGED <<alive, m_allocedCount>>
       ELSE IF HasHeadroom
       THEN LET x == NewId IN
            /\ Ids \ alive # {}
            /\ alive' = alive \cup {x}
            /\ m_allocedCount' = m_allocedCount + 1
            /\ callObj' = [callObj EXCEPT ![c] = [expiry |-> 0, obj |-> x]]
            /\ hookCalls' = PreProcess(x)
            /\ callPc' = [callPc EXCEPT ![c] = IF m_preProcess THEN "acq_pre" ELSE "acq_ret"]
            /\ UNCHANGED m_pool
       ELSE /\ hookCalls' = {}
            /\ callPc' = [callPc EXCEPT ![c] = "acq_ret"]
            /\ UNCHANGED <<m_pool, alive, m_allocedCount, callObj>>
    /\ UNCHANGED <<ctorVars, m_running, pristine, uafVars, callerFrame, m_delayedQueue,
                   m_delayMutex, held, loan, sinceClear, pendingAtClear>>

\* return obj (line 247)
SAcquireReturn(c) ==
    /\ callPc[c] \in {"acq_pre", "acq_ret"}
    /\ lastAcquire' = <<c, callObj[c].obj>>
    /\ held' = [held EXCEPT ![c] = @ \cup ({callObj[c].obj} \ {Null})]
    /\ loan' = [loan EXCEPT ![c] = @ \cup ({callObj[c].obj} \ {Null})]
    /\ callObj' = [callObj EXCEPT ![c] = NoObj]
    /\ callPc' = [callPc EXCEPT ![c] = "idle"]
    /\ hookCalls' = {}
    /\ UNCHANGED <<stmtFixed, callerFrame, m_pool, m_delayedQueue, m_delayMutex,
                   m_mutex, sinceClear, pendingAtClear>>

\* ---- release(obj, delay) (lines 251-279)
\* delay == 0: the call and the post-release hook (lines 257-262)
SReleaseCall(c, x) ==
    /\ pc # "gone" /\ callPc[c] = "idle"
    /\ x \in held[c]
    /\ callObj' = [callObj EXCEPT ![c] = [expiry |-> 0, obj |-> x]]
    /\ loan' = [loan EXCEPT ![c] = @ \ {x}]
    /\ hookCalls' = PostProcess(x)
    /\ callPc' = [callPc EXCEPT ![c] = IF m_postProcess THEN "rel_post" ELSE "rel_wait"]
    /\ sinceClear' = "none" /\ pendingAtClear' = {}
    /\ lastAcquire' = <<>>
    /\ UNCHANGED <<stmtFixed, callerFrame, m_pool, m_delayedQueue, m_delayMutex,
                   m_mutex, held>>

\* m_postProcess(obj) returns
SReleasePostDone(c) ==
    /\ callPc[c] = "rel_post"
    /\ callPc' = [callPc EXCEPT ![c] = "rel_wait"]
    /\ hookCalls' = {} /\ lastAcquire' = <<>>
    /\ UNCHANGED <<stmtFixed, callerFrame, m_pool, m_delayedQueue, m_delayMutex,
                   m_mutex, held, loan, callObj, sinceClear, pendingAtClear>>

\* std::lock_guard<std::mutex> lock(m_mutex) (line 264)
SReleaseLock(c) ==
    /\ callPc[c] = "rel_wait"
    /\ m_mutex = NoThread
    /\ m_mutex' = Tid(c)
    /\ callPc' = [callPc EXCEPT ![c] = "rel_cs"]
    /\ hookCalls' = {} /\ lastAcquire' = <<>>
    /\ UNCHANGED <<stmtFixed, callerFrame, m_pool, m_delayedQueue, m_delayMutex,
                   held, loan, callObj, sinceClear, pendingAtClear>>

\* lines 265-269 and the return
SReleasePush(c) ==
    /\ callPc[c] = "rel_cs"
    /\ m_pool' = IF Len(m_pool) < m_maxSize THEN Append(m_pool, callObj[c].obj) ELSE m_pool
    /\ m_mutex' = NoThread
    /\ callObj' = [callObj EXCEPT ![c] = NoObj]
    /\ callPc' = [callPc EXCEPT ![c] = "idle"]
    /\ hookCalls' = {} /\ lastAcquire' = <<>>
    /\ UNCHANGED <<stmtFixed, callerFrame, m_delayedQueue, m_delayMutex,
                   held, loan, sinceClear, pendingAtClear>>

\* delay > 0: the call and `expiry = now() + delay` (line 273).  The call is
\* made only while the queue, with the entries on their way into it, is
\* below MaxQueue.
SReleaseDelayCall(c, x, delay) ==
    /\ pc # "gone" /\ callPc[c] = "idle"
    /\ x \in held[c]
    /\ delay > 0
    /\ Len(m_delayedQueue) + Cardinality(InDelayedRelease) < MaxQueue
    /\ callObj' = [callObj EXCEPT ![c] = [expiry |-> now + delay, obj |-> x]]
    /\ loan' = [loan EXCEPT ![c] = @ \ {x}]
    /\ callPc' = [callPc EXCEPT ![c] = "reld_wait"]
    /\ sinceClear' = "none" /\ pendingAtClear' = {}
    /\ hookCalls' = {} /\ lastAcquire' = <<>>
    /\ UNCHANGED <<stmtFixed, callerFrame, m_pool, m_delayedQueue, m_delayMutex,
                   m_mutex, held>>

\* std::lock_guard<std::mutex> lock(m_delayMutex) (line 275)
SReleaseDelayLock(c) ==
    /\ callPc[c] = "reld_wait"
    /\ m_delayMutex = NoThread
    /\ m_delayMutex' = Tid(c)
    /\ callPc' = [callPc EXCEPT ![c] = "reld_cs"]
    /\ hookCalls' = {} /\ lastAcquire' = <<>>
    /\ UNCHANGED <<stmtFixed, callerFrame, m_pool, m_delayedQueue, m_mutex,
                   held, loan, callObj, sinceClear, pendingAtClear>>

\* line 276, the end of the locked block and the return
SReleaseDelayPush(c) ==
    /\ callPc[c] = "reld_cs"
    /\ m_delayedQueue' = Append(m_delayedQueue, callObj[c])
    /\ m_delayMutex' = NoThread
    /\ callObj' = [callObj EXCEPT ![c] = NoObj]
    /\ callPc' = [callPc EXCEPT ![c] = "idle"]
    /\ hookCalls' = {} /\ lastAcquire' = <<>>
    /\ UNCHANGED <<stmtFixed, callerFrame, m_pool, m_mutex,
                   held, loan, sinceClear, pendingAtClear>>

\* ---- getAvailableCount() (lines 282-287)
SCountCall(c) ==
    /\ pc # "gone" /\ callPc[c] = "idle"
    /\ callPc' = [callPc EXCEPT ![c] = "cnt_wait"]
    /\ hookCalls' = {} /\ lastAcquire' = <<>>
    /\ UNCHANGED <<stmtFixed, callerFrame, m_pool, m_delayedQueue, m_delayMutex,
                   m_mutex, held, loan, callObj, sinceClear, pendingAtClear>>

SCountLock(c) ==
    /\ callPc[c] = "cnt_wait"
    /\ m_mutex = NoThread
    /\ m_mutex' = Tid(c)
    /\ callPc' = [callPc EXCEPT ![c] = "cnt_cs"]
    /\ hookCalls' = {} /\ lastAcquire' = <<>>
    /\ UNCHANGED <<stmtFixed, callerFrame, m_pool, m_delayedQueue, m_delayMutex,
                   held, loan, callObj, sinceClear, pendingAtClear>>

SCountReturn(c) ==
    /\ callPc[c] = "cnt_cs"
    /\ m_mutex' = NoThread
    /\ callPc' = [callPc EXCEPT ![c] = "idle"]
    /\ hookCalls' = {} /\ lastAcquire' = <<>>
    /\ UNCHANGED <<stmtFixed, callerFrame, m_pool, m_delayedQueue, m_delayMutex,
                   held, loan, callObj, sinceClear, pendingAtClear>>

\* ---- clear() (lines 290-318), on the owner thread
ownerFrame == <<sweepVars, now, held, loan, callPc, callObj>>

\* the call; the instances then in the deferred queue are pending return
SClearCall ==
    /\ pc = "idle"
    /\ pc' = "clr_wait"
    /\ sinceClear' = IF \A c \in Callers : callPc[c] \notin ReleaseLocs
                     THEN "begun" ELSE "none"
    /\ pendingAtClear' = IF \A c \in Callers : callPc[c] \notin ReleaseLocs
                         THEN Range(QueueObjs) ELSE {}
    /\ hookCalls' = {} /\ lastAcquire' = <<>>
    /\ UNCHANGED <<stmtFixed, ownerFrame, m_pool, m_delayedQueue, m_delayMutex, m_mutex>>

\* std::lock_guard<std::mutex> lock(m_delayMutex) (line 297)
SClearLock ==
    /\ pc = "clr_wait"
    /\ m_delayMutex = NoThread
    /\ m_delayMutex' = Owner
    /\ pc' = "clr_loop"
    /\ hookCalls' = {} /\ lastAcquire' = <<>>
    /\ UNCHANGED <<stmtFixed, ownerFrame, m_pool, m_delayedQueue, m_mutex,
                   sinceClear, pendingAtClear>>

\* lines 300-305: top(), pop() and the call of the post-release hook
SClearPop(k) ==
    /\ pc = "clr_loop"
    /\ IsTop(k)
    /\ m_delayedQueue' = RemoveAt(m_delayedQueue, k)
    /\ hookCalls' = PostProcess(m_delayedQueue[k].obj)
    /\ pc' = IF m_postProcess THEN "clr_post" ELSE "clr_loop"
    /\ lastAcquire' = <<>>
    /\ UNCHANGED <<stmtFixed, ownerFrame, m_pool, m_delayMutex, m_mutex,
                   sinceClear, pendingAtClear>>

\* m_postProcess(obj) returns; the loop goes on
SClearPostDone ==
    /\ pc = "clr_post"
    /\ pc' = "clr_loop"
    /\ hookCalls' = {} /\ lastAcquire' = <<>>
    /\ UNCHANGED <<stmtFixed, ownerFrame, m_pool, m_delayedQueue, m_delayMutex, m_mutex,
                   sinceClear, pendingAtClear>>

\* the loop ends and the lock_guard on m_delayMutex is destroyed (line 307)
SClearKeepsLock ==
    /\ pc = "clr_loop"
    /\ m_delayedQueue = <<>>
    /\ pc' = "clr_wait2"
    /\ hookCalls' = {} /\ lastAcquire' = <<>>
    /\ UNCHANGED <<stmtFixed, ownerFrame, m_pool, m_delayedQueue, m_delayMutex, m_mutex,
                   sinceClear, pendingAtClear>>
SClearUnlock ==
    /\ pc = "clr_loop"
    /\ m_delayedQueue = <<>>
    /\ m_delayMutex' = NoThread
    /\ pc' = "clr_wait2"
    /\ hookCalls' = {} /\ lastAcquire' = <<>>
    /\ UNCHANGED <<stmtFixed, ownerFrame, m_pool, m_delayedQueue, m_mutex,
                   sinceClear, pendingAtClear>>

\* std::lock_guard<std::mutex> lock(m_mutex) (line 310)
SClearLockPool ==
    /\ pc = "clr_wait2"
    /\ m_mutex = NoThread
    /\ m_mutex' = Owner
    /\ pc' = "clr_cs"
    /\ hookCalls' = {} /\ lastAcquire' = <<>>
    /\ UNCHANGED <<stmtFixed, ownerFrame, m_pool, m_delayedQueue, m_delayMutex,
                   sinceClear, pendingAtClear>>

\* m_pool.clear() (line 311), the end of the locked block and the return
SClearPool ==
    /\ pc = "clr_cs"
    /\ m_pool' = <<>>
    /\ m_mutex' = NoThread
    /\ pc' = "idle"
    /\ sinceClear' = IF sinceClear = "begun" THEN "returned" ELSE "none"
    /\ hookCalls' = {} /\ lastAcquire' = <<>>
    /\ UNCHANGED <<stmtFixed, ownerFrame, m_delayedQueue, m_delayMutex, pendingAtClear>>

\* ---- processExpiredObjects() (lines 332-362), on the cleanup thread
sweepFrame == <<pc, now, held, loan, callPc, callObj, sinceClear, pendingAtClear>>

\* the sleep ends (line 326); std::lock_guard lock(m_delayMutex) (line 338)
SSweepLock ==
    /\ sweepPc = "wait"
    /\ m_delayMutex = NoThread
    /\ m_delayMutex' = Sweeper
    /\ sweepPc' = "swp_cs"
    /\ hookCalls' = {} /\ lastAcquire' = <<>>
    /\ UNCHANGED <<stmtFixed, sweepFrame, m_pool, m_delayedQueue, m_mutex,
                   expiredObjects, sweepIdx>>

\* lines 339-345
SSweepCollect(f) ==
    /\ sweepPc = "swp_cs"
    /\ f \in PopOrders
    /\ expiredObjects' = [j \in DOMAIN f |-> m_delayedQueue[f[j]].obj]
    /\ m_delayedQueue' = SelectSeq(m_delayedQueue, NotExpired)
    /\ m_delayMutex' = NoThread
    /\ sweepIdx' = 1
    /\ sweepPc' = IF ExpiredIdx # {} THEN "each" ELSE "wait"
    /\ hookCalls' = {} /\ lastAcquire' = <<>>
    /\ UNCHANGED <<stmtFixed, sweepFrame, m_pool, m_mutex>>

\* lines 350-353: the call of the post-release hook on the next element
SSweepPost ==
    /\ sweepPc = "each"
    /\ sweepIdx <= Len(expiredObjects)
    /\ hookCalls' = PostProcess(expiredObjects[sweepIdx])
    /\ sweepPc' = IF m_postProcess THEN "swp_post" ELSE "swp_wait"
    /\ lastAcquire' = <<>>
    /\ UNCHANGED <<stmtFixed, sweepFrame, m_pool, m_delayedQueue, m_delayMutex, m_mutex,
                   expiredObjects, sweepIdx>>

SSweepPostDone ==
    /\ sweepPc = "swp_post"
    /\ sweepPc' = "swp_wait"
    /\ hookCalls' = {} /\ lastAcquire' = <<>>
    /\ UNCHANGED <<stmtFixed, sweepFrame, m_pool, m_delayedQueue, m_delayMutex, m_mutex,
                   expiredObjects, sweepIdx>>

\* std::lock_guard<std::mutex> lock(m_mutex) (line 355)
SSweepLockPool ==
    /\ sweepPc = "swp_wait"
    /\ m_mutex = NoThread
    /\ m_mutex' = Sweeper
    /\ sweepPc' = "swp_push"
    /\ hookCalls' = {} /\ lastAcquire' = <<>>
    /\ UNCHANGED <<stmtFixed, sweepFrame, m_pool, m_delayedQueue, m_delayMutex,
                   expiredObjects, sweepIdx>>

\* lines 356-359 and the end of the iteration
SSweepPush ==
    /\ sweepPc = "swp_push"
    /\ IF Len(m_pool) < m_maxSize
       THEN /\ m_pool' = Append(m_pool, expiredObjects[sweepIdx])
            /\ expiredObjects' = [expiredObjects EXCEPT ![sweepIdx] = Null]
       ELSE UNCHANGED <<m_pool, expiredObjects>>
    /\ m_mutex' = NoThread
    /\ sweepIdx' = sweepIdx + 1
    /\ sweepPc' = "each"
    /\ hookCalls' = {} /\ lastAcquire' = <<>>
    /\ UNCHANGED <<stmtFixed, sweepFrame, m_delayedQueue, m_delayMutex>>

\* the for loop ends; back to the loop of cleanupTask
SSweepReturn ==
    /\ sweepPc = "each"
    /\ sweepIdx > Len(expiredObjects)
    /\ expiredObjects' = <<>>
    /\ sweepIdx' = 1
    /\ sweepPc' = "wait"
    /\ hookCalls' = {} /\ lastAcquire' = <<>>
    /\ UNCHANGED <<stmtFixed, sweepFrame, m_pool, m_delayedQueue, m_delayMutex, m_mutex>>

CallerStep(c) ==
    \/ SAcquireCall(c) \/ SAcquireLock(c) \/ SAcquireTake(c) \/ SAcquireReturn(c)
    \/ \E x \in Ids : SReleaseCall(c, x)
    \/ SReleasePostDone(c) \/ SReleaseLock(c) \/ SReleasePush(c)
    \/ \E x \in Ids, d \in 1..MaxDelay : SReleaseDelayCall(c, x, d)
    \/ SReleaseDelayLock(c) \/ SReleaseDelayPush(c)
    \/ SCountCall(c) \/ SCountLock(c) \/ SCountReturn(c)
OwnerStep ==
    \/ SClearCall \/ SClearLock
    \/ \E k \in 1..Len(m_delayedQueue) : SClearPop(k)
    \/ SClearPostDone \/ SClearUnlock \/ SClearLockPool \/ SClearPool
SweeperStep ==
    \/ SSweepLock
    \/ \E f \in PopOrders : SSweepCollect(f)
    \/ SSweepPost \/ SSweepPostDone \/ SSweepLockPool \/ SSweepPush \/ SSweepReturn

\* with the first n callers calling
StmtNextOf(n) ==
    \/ \E c \in 1..n : CallerStep(c)
    \/ OwnerStep
    \/ SweeperStep
    \/ Tick

StmtNext == StmtNextOf(NumCallers)

StmtSpec == StmtInit /\ [][StmtNext]_vars

\* The steps of a call in progress (all but the call itself), of clear()
\* in progress, and of the cleanup thread
CallerProgress(c) ==
    \/ SAcquireLock(c) \/ SAcquireTake(c) \/ SAcquireReturn(c)
    \/ SReleasePostDone(c) \/ SReleaseLock(c) \/ SReleasePush(c)
    \/ SReleaseDelayLock(c) \/ SReleaseDelayPush(c)
    \/ SCountLock(c) \/ SCountReturn(c)
OwnerProgress ==
    \/ SClearLock
    \/ \E k \in 1..Len(m_delayedQueue) : SClearPop(k)
    \/ SClearPostDone \/ SClearUnlock \/ SClearLockPool \/ SClearPool

\* Every thread is scheduled, hooks return, and a thread that finds the
\* mutex it waits for free again and again eventually gets it.  LiveCallers
\* callers contend with the owner thread and the cleanup thread.
LiveCallers == 1
FairStmtSpec ==
    /\ StmtInit
    /\ [][StmtNextOf(LiveCallers)]_vars
    /\ \A c \in 1..LiveCallers : SF_vars(CallerProgress(c))
    /\ SF_vars(OwnerProgress)
    /\ SF_vars(SweeperStep)

\* ================================================== sweep specification
\* SweepSpec is Spec restricted to acquire, delayed release and the cleanup thread,
\* with a deferred queue of up to SweepMaxQueue entries whose delays and
\* clock reach SweepMaxTime, so that one tick meets entries of different
\* expiry, some of them not yet due.
SweepMaxQueue == 2
SweepMaxTime == 2

SweepInit ==
    /\ Init
    /\ initialSize = 0
    /\ m_maxSize > 0
    /\ m_preProcess

SweepNext ==
    \/ \E c \in Callers : Acquire(c)
    \/ \E c \in Callers, x \in Ids, d \in 1..SweepMaxTime :
          ReleaseDelayUpTo(c, x, d, SweepMaxQueue)
    \/ \E f \in PopOrders : SweepCollect(f)
    \/ SweepEach
    \/ SweepReturn
    \/ TickUpTo(SweepMaxTime)

SweepSpec == SweepInit /\ [][SweepNext]_vars

\* ================================================================ claims

\* C1: in every reachable state the available collection holds at most
\* maxSize instances (getAvailableCount() <= maxSize).
C1_AvailableWithinMax == Len(m_pool) <= m_maxSize

\* C2: a second release(x, 0) on an instance that the first call has already
\* made available, with no acquire in between, is a no-op: it does not invoke
\* the post-release hook again and leaves the available collection as it was.
AlreadyReturned(c, x) ==
    /\ x \in held[c]
    /\ x \notin OnLoan
    /\ Occurrences(m_pool, x) >= 1
C2_SecondReleaseIsNoOp ==
    [][\A c \in Callers, x \in Ids :
          (AlreadyReturned(c, x) /\ ReleaseNow(c, x))
             => (m_pool' = m_pool /\ hookCalls' = {})]_vars

\* C3: no instance is in two of the states available / on-loan /
\* pending-return at once, and none appears more than once in m_pool or in
\* m_delayedQueue.
C3_OneStatePerInstance ==
    \A i \in Ids :
        Occurrences(m_pool, i) + Occurrences(QueueObjs, i)
          + (IF i \in OnLoan THEN 1 ELSE 0) <= 1

\* C4: at most one outstanding loan references a given instance.
C4_OneLoanPerInstance ==
    \A i \in Ids : Cardinality({c \in Callers : i \in loan[c]}) <= 1

\* C5: with initial fill 0, once maxSize acquire calls have each returned an
\* instance and nothing has been returned or dropped, every further acquire
\* returns an empty result and constructs nothing.
Exhausted ==
    /\ initialSize = 0
    /\ pristine
    /\ Cardinality(OnLoan) = m_maxSize
C5_ExhaustedAcquireIsEmpty ==
    [][\A c \in Callers :
          (Exhausted /\ Acquire(c))
             => /\ lastAcquire' = <<c, Null>>
                /\ alive' = alive
                /\ m_allocedCount' = m_allocedCount
                /\ held' = held
                /\ hookCalls' = {}]_vars
C5_Witness ==
    /\ Exhausted
    /\ m_maxSize = MaxCap
    /\ \A c \in Callers : loan[c] # {}
    /\ \E c \in Callers : lastAcquire = <<c, Null>>

\* C6: the number of outstanding constructed instances (m_allocedCount)
\* never exceeds maxSize while the pool exists.
C6_AllocedWithinMax == PoolExists => m_allocedCount <= m_maxSize

C8_DisposeAfterTeardownIsSafe ==
    [][\A c \in Callers, x \in Ids, o \in Outcomes :
          (x \in loan[c] /\ RefCount(x) = 1 /\ DropAfterTeardown(c, x, o))
             => /\ ~danglingAccess'
                /\ ~crashed'
                /\ x \notin alive'
                /\ m_finalProcess => hookCalls' = {<<"final", x>>}]_vars

\* C9: an instance released with delay D > 0 at time t is not in the
\* available collection before t + D, and the first sweep tick at or after
\* t + D collects it and puts it into the available collection.
C9_DelayedReturnTiming ==
    /\ [](\A k \in 1..Len(m_delayedQueue) :
             now < m_delayedQueue[k].expiry
                => Occurrences(m_pool, m_delayedQueue[k].obj) = 0)
    /\ [][\A f \in PopOrders :
             SweepCollect(f)
                => \A k \in 1..Len(m_delayedQueue) :
                      m_delayedQueue[k].expiry <= now
                         => m_delayedQueue[k].obj \in Range(expiredObjects')]_vars
    /\ [][SweepEach
             => Occurrences(m_pool', expiredObjects[sweepIdx]) >= 1]_vars

\* C10: release(x, 0) of an instance on loan makes the available collection
\* one larger with x on top, and an acquire on a non-empty collection
\* returns its top (the most recently released instance) and constructs
\* nothing.
C10_RoundTrip ==
    [][/\ \A c \in Callers, x \in Ids :
             (x \in loan[c] /\ ReleaseNow(c, x))
                => /\ Len(m_pool') = Len(m_pool) + 1
                   /\ m_pool'[Len(m_pool')] = x
       /\ \A c \in Callers :
             (m_pool # <<>> /\ Acquire(c))
                => /\ lastAcquire' = <<c, m_pool[Len(m_pool)]>>
                   /\ alive' = alive]_vars

HeldBy(i) == {c \in Callers : i \in held[c]}
PostCalls(h) == {e \in h : e[1] = "post"}
FinalCalls(h) == {e \in h : e[1] = "final"}

ClearStep ==
    \/ ClearLock
    \/ \E k \in 1..Len(m_delayedQueue) : ClearDrain(k)
    \/ \E k \in 1..Len(m_delayedQueue) : ClearDrainThrows(k)
    \/ ClearUnlock
    \/ ClearPool

\* C12 (as claimed): clear() only drains the available collection; the
\* instances on loan and the contents of the deferred-return queue are the
\* same after each of its steps as before.
C12_ClearLeavesLoansAndQueue ==
    [][ClearStep => (loan' = loan /\ m_delayedQueue' = m_delayedQueue)]_vars

\* C12 (amended): clear() drains the deferred-return queue as well as the
\* available collection (its loop pops entries until the queue is empty);
\* it does not affect the instances on loan: no step of clear() changes a
\* caller's loans or handles, and every instance a caller holds stays alive.
C12_ClearLeavesLoans ==
    [][ClearStep
          => /\ loan' = loan
             /\ held' = held
             /\ \A c \in Callers : held[c] \cap alive \subseteq alive'
             /\ (pc' = "clr_pool" /\ pc = "clr_drain") => m_delayedQueue' = <<>>
             /\ (pc' # pc /\ pc = "clr_pool") => m_pool' = <<>>]_vars
C12_Witness ==
    /\ pc = "clr_drain"
    /\ m_delayedQueue = <<>>
    /\ OnLoan # {}
    /\ \E x \in Ids \ OnLoan : hookCalls = {<<"post", x>>, <<"final", x>>}

\* The instances whose current loan has not had its post-release yet: on
\* loan, in the deferred queue, or collected by the sweep and not yet
\* handled by its for loop.
AwaitingPost ==
    OnLoan \cup Range(QueueObjs)
      \cup {expiredObjects[k] : k \in sweepIdx..Len(expiredObjects)}
BecomesAvailable(x) ==
    /\ Len(m_pool') = Len(m_pool) + 1
    /\ m_pool'[Len(m_pool')] = x

InHook ==
    {Tid(c) : c \in {d \in Callers : callPc[d] \in {"acq_pre", "rel_post"}}}
      \cup (IF pc = "clr_post" THEN {Owner} ELSE {})
      \cup (IF sweepPc = "swp_post" THEN {Sweeper} ELSE {})
HeldMutexes(t) ==
    (IF m_mutex = t THEN {"m_mutex"} ELSE {})
      \cup (IF m_delayMutex = t THEN {"m_delayMutex"} ELSE {})

\* C14: the pre-acquire and post-release hooks are never invoked while the
\* invoking thread holds m_mutex or m_delayMutex, in acquire, release, clear
\* and the sweep.
C14_NoHookUnderLock == \A t \in InHook : HeldMutexes(t) = {}

\* The destructor is past the join of the cleanup thread
Joined == pc \in {"dtor_clear", "dtor_end", "gone"} \/ (~m_running /\ pc \in {"clr_drain", "clr_pool"})

\* C15: on teardown the cleanup thread has stopped and is joined before any
\* state is drained; after the join every entry still in the deferred queue
\* has post-release invoked and is discarded, and the deferred queue and the
\* available collection are both empty when the teardown ends.
C15_TeardownDrainsAll ==
    /\ [](Joined => sweepPc = "done")
    /\ [](pc = "dtor_end" => (m_delayedQueue = <<>> /\ m_pool = <<>>))
    /\ [][(Joined /\ m_delayedQueue' # m_delayedQueue)
             => \E k \in 1..Len(m_delayedQueue) :
                   /\ m_delayedQueue' = RemoveAt(m_delayedQueue, k)
                   /\ m_postProcess => <<"post", m_delayedQueue[k].obj>> \in hookCalls']_vars

\* C16: if a hook throws during clear() or destruction the exception is
\* caught locally and the drain still completes: clear() returns with all
\* locks released, the deferred queue empty and the available collection
\* empty.
C16_ThrowingHookStillDrains ==
    [][\A k \in 1..Len(m_delayedQueue) :
          ClearDrainThrows(k)
             => /\ pc' \in {"idle", "dtor_end"}
                /\ m_delayMutex' = NoThread
                /\ m_delayedQueue' = <<>>
                /\ m_pool' = <<>>]_vars

Referenced ==
    UNION {held[c] : c \in Callers} \cup Range(m_pool) \cup Range(QueueObjs)
      \cup (Range(expiredObjects) \ {Null})

\* C17 (as claimed): in every reachable state the number of instances on
\* loan plus the number in the available collection equals the number
\* constructed minus the number destroyed, the value of m_allocedCount.
C17_LoanPlusAvailableIsAlloced ==
    /\ Cardinality(OnLoan) + Len(m_pool) = Cardinality(alive)
    /\ PoolExists => m_allocedCount = Cardinality(alive)

\* C17 (amended): while the pool exists m_allocedCount equals the number of
\* instances constructed and not yet destroyed, and each of them is
\* referenced by a caller's handle, the available collection, the deferred
\* queue or the sweep's local vector.  Instances pending return (and those a
\* caller still holds after release) are counted but are neither on loan
\* nor available: the instances on loan or available are among the live
\* ones, they do not make up all of them.
C17_AllocedCountsLive ==
    /\ PoolExists => m_allocedCount = Cardinality(alive)
    /\ ~crashed => alive = Referenced
    /\ Cardinality(OnLoan \cup Range(m_pool)) <= Cardinality(alive)
C17_Witness ==
    /\ PoolExists
    /\ m_delayedQueue # <<>>
    /\ OnLoan # {}
    /\ Cardinality(OnLoan) + Len(m_pool) < m_allocedCount
    /\ Range(QueueObjs) \cap (OnLoan \cup Range(m_pool)) = {}

Due(q, t) == {k \in 1..Len(q) : q[k].expiry <= t}
Later(q, t) == {k \in 1..Len(q) : q[k].expiry > t}

\* C18: each sweep tick removes from the deferred queue exactly the entries
\* whose expiry is <= the current time, in ascending expiry order, and
\* leaves every entry of later expiry in the queue; for each removed entry
\* the post-release hook is invoked exactly once, before the instance is
\* pushed to the available collection.
C18_SweepTick ==
    [][/\ (sweepPc = "wait" /\ sweepPc' # "wait" /\ m_running)
             => /\ Len(expiredObjects') = Cardinality(Due(m_delayedQueue, now))
                /\ Len(expiredObjects') > 0
                /\ \E g \in [1..Len(expiredObjects') -> Due(m_delayedQueue, now)] :
                      /\ \A i, j \in DOMAIN g : i # j => g[i] # g[j]
                      /\ \A i \in DOMAIN g : expiredObjects'[i] = m_delayedQueue[g[i]].obj
                      /\ \A i, j \in DOMAIN g :
                            i < j => m_delayedQueue[g[i]].expiry <= m_delayedQueue[g[j]].expiry
                /\ Len(m_delayedQueue') = Cardinality(Later(m_delayedQueue, now))
                /\ \A k \in Later(m_delayedQueue, now) :
                      Occurrences(m_delayedQueue', m_delayedQueue[k])
                         = Occurrences(m_delayedQueue, m_delayedQueue[k])
                /\ hookCalls' = {}
       /\ (sweepPc = "wait" /\ sweepPc' = "wait" /\ m_delayedQueue' # m_delayedQueue)
             => Len(m_delayedQueue') > Len(m_delayedQueue)
       /\ (sweepPc = "each" /\ sweepIdx' # sweepIdx /\ sweepPc' = "each")
             => LET x == expiredObjects[sweepIdx] IN
                /\ sweepIdx' = sweepIdx + 1
                /\ x # Null
                /\ hookCalls' = IF m_postProcess THEN {<<"post", x>>} ELSE {}
                /\ m_pool' = IF Len(m_pool) < m_maxSize THEN Append(m_pool, x) ELSE m_pool
       /\ (sweepPc = "each" /\ sweepPc' # "each")
             => (sweepIdx = Len(expiredObjects) + 1 /\ PostCalls(hookCalls') = {})]_vars
C18_Witness ==
    /\ sweepPc = "each"
    /\ sweepIdx = 2
    /\ Len(expiredObjects) = 1
    /\ \E x \in Ids : hookCalls = {<<"post", x>>} /\ m_pool # <<>> /\ m_pool[Len(m_pool)] = x
    /\ m_delayedQueue # <<>>
    /\ \A k \in 1..Len(m_delayedQueue) : m_delayedQueue[k].expiry > now

Threads == {Tid(c) : c \in Callers} \cup {Owner, Sweeper}
\* The threads blocked in the constructor of a lock_guard
Waiting ==
    {Tid(c) : c \in {d \in Callers : callPc[d] \in {"acq_wait", "rel_wait", "reld_wait", "cnt_wait"}}}
      \cup (IF pc \in {"clr_wait", "clr_wait2"} THEN {Owner} ELSE {})
      \cup (IF sweepPc = "swp_wait" THEN {Sweeper} ELSE {})

\* C19: no thread ever holds m_mutex and m_delayMutex at the same time (nor
\* waits for one while holding the other) in acquire, release,
\* getAvailableCount, clear or the sweep, so with hooks that do not re-enter
\* the pool no interleaving deadlocks: every started call, every clear()
\* and every sweep tick completes.
C19_NoDoubleLockNoDeadlock ==
    /\ [](\A t \in Threads : Cardinality(HeldMutexes(t)) <= 1)
    /\ [](\A t \in Waiting : HeldMutexes(t) = {})
    /\ \A c \in Callers : (callPc[c] # "idle") ~> (callPc[c] = "idle")
    /\ (pc # "idle") ~> (pc = "idle")
    /\ (sweepPc # "wait") ~> (sweepPc = "wait")
C19_Witness ==
    /\ m_delayMutex = Owner
    /\ pc = "clr_post"
    /\ m_mutex = Sweeper
    /\ \E c \in Callers : callPc[c] = "reld_wait"

\* C20: when clear() runs concurrently with a sweep tick and no release is
\* called during or after it, then once clear() has returned no instance
\* that was pending return when clear() began is in the available
\* collection, and getAvailableCount() (the size of m_pool) stays 0.
C20_ClearedStaysEmpty ==
    sinceClear = "returned"
        => /\ pendingAtClear \cap Range(m_pool) = {}
           /\ Len(m_pool) = 0

====
